---------------------------- MODULE Spec2Model ----------------------------
(***************************************************************************)
(* State-machine model of the ENTSO-E ETL script (src/etl.py): the entry   *)
(* point with its sentinel-gated historical backfill, the daily loader,    *)
(* the two fetch-and-store operations with their error handlers, and the   *)
(* datetime arithmetic that computes the windows and the periodStart /     *)
(* periodEnd query parameters.                                             *)
(*                                                                         *)
(* Time.  An instant is a number of minutes since 2024-01-01T00:00Z.  An   *)
(* aware datetime is a record [wall, off]: its wall-clock fields (minutes  *)
(* since 2024-01-01 00:00 on that wall clock) and the UTC offset of its    *)
(* tzinfo in minutes; the instant it denotes is wall - off.  pytz hands    *)
(* out fixed-offset tzinfo objects, so replace() and timedelta arithmetic  *)
(* change wall and keep off.                                               *)
(*                                                                         *)
(* Environment.  The HTTP API and the database may fail at every call the  *)
(* code makes to them.  The notification sink accepts every message, and   *)
(* the write of the sentinel file succeeds.                                *)
(***************************************************************************)
EXTENDS Integers, Sequences, FiniteSets, TLC

(* ------------------------------ bounds --------------------------------- *)

\* Invocations of the entry point in one behaviour.
MaxInvocations == 2

\* Longest backfill explored, in days fetched.
MaxBackfillDays == 4

(* ------------------------------ calendar ------------------------------- *)

MinPerHour == 60
MinPerDay == 1440
CutoffHour == 22

\* Minute number of day d (0 = 2024-01-01), hh:mm.
At(d, hh, mm) == d * MinPerDay + hh * MinPerHour + mm

\* Europe/Berlin in 2024: CEST from 2024-03-31T01:00Z to 2024-10-27T01:00Z.
DstStart == At(90, 1, 0)
DstEnd == At(300, 1, 0)
CetOffset == 60
CestOffset == 120

\* utcoffset of Europe/Berlin at the UTC instant u.
BerlinOffset(u) == IF u >= DstStart /\ u < DstEnd THEN CestOffset ELSE CetOffset

\* datetime(2024, 1, 1, tzinfo=timezone.utc) + u minutes.
UtcDt(u) == [wall |-> u, off |-> 0]

\* The instant an aware datetime denotes (what comparisons compare).
Instant(dt) == dt.wall - dt.off

\* dt.astimezone(pytz.timezone("Europe/Berlin"))
AsBerlin(dt) ==
    LET u == Instant(dt)
    IN  [wall |-> u + BerlinOffset(u), off |-> BerlinOffset(u)]

\* dt.astimezone(timezone.utc)
AsUtc(dt) == [wall |-> Instant(dt), off |-> 0]

\* dt.replace(hour=22, minute=0, second=0, microsecond=0)
ReplaceCutoff(dt) ==
    [wall |-> (dt.wall \div MinPerDay) * MinPerDay + CutoffHour * MinPerHour,
     off  |-> dt.off]

\* dt + timedelta(days=n): wall-clock arithmetic, the tzinfo is kept.
PlusDays(dt, n) == [wall |-> dt.wall + n * MinPerDay, off |-> dt.off]

\* pytz.utc.localize(dt.replace(tzinfo=None)): the wall-clock fields, read as UTC.
AttachUtc(dt) == [wall |-> dt.wall, off |-> 0]

\* Civil date of day number d (0 = 2024-01-01), as <<year, month, day>>.
CivilFromDays(d) ==
    LET z   == d + 19723 + 719468
        era == z \div 146097
        doe == z - era * 146097
        yoe == (doe - doe \div 1460 + doe \div 36524 - doe \div 146096) \div 365
        doy == doe - (365 * yoe + yoe \div 4 - yoe \div 100)
        mp  == (5 * doy + 2) \div 153
        dd  == doy - (153 * mp + 2) \div 5 + 1
        mm  == IF mp < 10 THEN mp + 3 ELSE mp - 9
        yy  == yoe + era * 400 + (IF mm <= 2 THEN 1 ELSE 0)
    IN  <<yy, mm, dd>>

\* dt.strftime("%Y%m%d%H%M"), as <<YYYYMMDD, HHMM>>: the numbers its first eight
\* and its last four digits spell.
Strftime(dt) ==
    LET c == CivilFromDays(dt.wall \div MinPerDay)
        t == dt.wall % MinPerDay
    IN  << c[1] * 10000 + c[2] * 100 + c[3],
           (t \div MinPerHour) * 100 + (t % MinPerHour) >>

\* periodStart / periodEnd as fetch_and_store_data computes them.
BalancingPeriod(dt) == Strftime(AsBerlin(AttachUtc(dt)))

\* periodStart / periodEnd as fetch_and_store_dayahead_prices computes them.
DayAheadPeriod(dt) == Strftime(AsBerlin(dt))

\* The end of the window of daily_load (and historical_end) for clock reading t.
CutoffEnd(t) ==
    LET today_22_cet == ReplaceCutoff(AsBerlin(UtcDt(t)))
    IN  IF t >= Instant(AsUtc(today_22_cet))
        THEN today_22_cet
        ELSE PlusDays(today_22_cet, -1)

(* ------------------------------ program data --------------------------- *)

\* germany_control_areas, in the order its loop visits them.
ControlAreas == <<"TransnetBW", "TenneT", "Amprion", "50Hertz">>

\* process_types of fetch_and_store_data, in loop order.
ProcessTypes == <<"A51", "A52", "A47", "A46">>

\* Calls per window: one per control area, then the day-ahead call.
CallsPerWindow == Len(ControlAreas) + 1

\* What one query of a process type can come to:
\*   ok_empty      the response parses and holds no Point
\*   ok_all        the response parses, every record is appended to data
\*   fail_early    the request or the parse raises before any record is appended
\*   fail_partial  the parse raises at a later Period or Point, after records of
\*                 this process type were appended to data
BalancingOutcomes == {"ok_empty", "ok_all", "fail_early", "fail_partial"}

\* What the single day-ahead query can come to; data is local to the call, so a
\* failure leaves nothing behind.
DayAheadOutcomes == {"ok_empty", "ok_all", "fail"}

\* Clock readings explored: early January 2024 (backfills of one to five days)
\* and the days around both 2024 offset changes of Europe/Berlin.
ClockTicks ==
    { At(1, 12, 0), At(2, 20, 59), At(2, 21, 0), At(3, 10, 0), At(3, 21, 30),
      At(4, 21, 0),
      At(90, 0, 30), At(90, 10, 0), At(90, 20, 0), At(91, 10, 0),
      At(300, 0, 30), At(300, 10, 0), At(300, 21, 0) }

NoDt == [wall |-> 0, off |-> 0]

(* ------------------------------ state ---------------------------------- *)

VARIABLES
    sentinel,        \* .last_historical_run exists
    inv,             \* invocations started so far
    clock,           \* the last reading of datetime.now(timezone.utc)
    pc,              \* where the running invocation is
    phase,           \* "none" | "backfill" | "daily": whose loop is calling
    startSentinel,   \* sentinel, as the running invocation found it
    ranBackfill,     \* historical_load_daywise was entered in this invocation
    histReturned,    \* historical_load_daywise returned in this invocation
    dailyRan,        \* daily_load was entered in this invocation
    completions,     \* backfills run to completion, over all invocations
    exitStatus,      \* "none" | "completed" | "caught": how the invocation ended
    alerts,          \* messages handed to send_email_alert in this invocation
    callLog,         \* the fetch calls made in this invocation
    raisedPhase,     \* the phase in which a fetch call raised ("none": none did)
    logAtRaise,      \* Len(callLog) when that call raised
    historical_end,  \* historical_load_daywise's local
    current_day,     \* historical_load_daywise's local
    period_start,    \* daily_load's local
    period_end,      \* daily_load's local
    idx,             \* which call of the window: 1..4 control areas, 5 day-ahead
    ptIdx,           \* fetch_and_store_data's position in process_types
    data,            \* the fetch call's data list, as groups of records
    failedPt,        \* process types whose query raised in this call
    callState,       \* "none" | "running" | "returned" | "raised"
    raisedAt,        \* the step of the call that raised
    openConns,       \* database connections open
    dbOps,           \* what this call did on its connection
    inserted         \* the batch this call inserted

invVars == <<sentinel, inv, clock, phase, startSentinel, ranBackfill, histReturned,
             dailyRan, completions, exitStatus>>
winVars == <<historical_end, current_day, period_start, period_end>>
excVars == <<alerts, raisedPhase, logAtRaise, callState, raisedAt>>
fetchVars == <<ptIdx, data, failedPt>>
dbVars == <<openConns, dbOps, inserted>>
vars == <<invVars, pc, winVars, excVars, callLog, idx, fetchVars, dbVars>>

Init ==
    /\ sentinel \in BOOLEAN
    /\ startSentinel = sentinel
    /\ inv = 0
    /\ clock = 0
    /\ pc = "idle"
    /\ phase = "none"
    /\ ranBackfill = FALSE
    /\ histReturned = FALSE
    /\ dailyRan = FALSE
    /\ completions = 0
    /\ exitStatus = "none"
    /\ alerts = <<>>
    /\ callLog = <<>>
    /\ raisedPhase = "none"
    /\ logAtRaise = 0
    /\ historical_end = NoDt
    /\ current_day = NoDt
    /\ period_start = NoDt
    /\ period_end = NoDt
    /\ idx = 0
    /\ ptIdx = 0
    /\ data = <<>>
    /\ failedPt = {}
    /\ callState = "none"
    /\ raisedAt = "none"
    /\ openConns = 0
    /\ dbOps = <<>>
    /\ inserted = <<>>

(* ------------------------------ entry point ---------------------------- *)

\* The existence test dropped: the backfill branch is taken in every invocation.
BackfillAlways == TRUE

\* if not os.path.exists(last_run_file)
BackfillNeeded == ~sentinel

\* The process starts: a fresh interpreter, no connection, nothing sent yet.
StartInvocation ==
    /\ pc \in {"idle", "done"}
    /\ inv < MaxInvocations
    /\ inv' = inv + 1
    /\ startSentinel' = sentinel
    /\ pc' = IF BackfillNeeded THEN "hist_entry" ELSE "daily_entry"
    /\ phase' = "none"
    /\ ranBackfill' = FALSE
    /\ histReturned' = FALSE
    /\ dailyRan' = FALSE
    /\ exitStatus' = "none"
    /\ alerts' = <<>>
    /\ callLog' = <<>>
    /\ raisedPhase' = "none"
    /\ logAtRaise' = 0
    /\ historical_end' = NoDt
    /\ current_day' = NoDt
    /\ period_start' = NoDt
    /\ period_end' = NoDt
    /\ idx' = 0
    /\ ptIdx' = 0
    /\ data' = <<>>
    /\ failedPt' = {}
    /\ callState' = "none"
    /\ raisedAt' = "none"
    /\ openConns' = 0
    /\ dbOps' = <<>>
    /\ inserted' = <<>>
    /\ UNCHANGED <<sentinel, clock, completions>>

\* Iterations of the backfill loop when the clock reads t.
BackfillDays(t) ==
    LET he == Instant(AsUtc(CutoffEnd(t)))
    IN  IF he <= 0 THEN 0 ELSE (he + MinPerDay - 1) \div MinPerDay

\* historical_load_daywise, up to its loop: start_date, now_utc, historical_end.
HistEntry ==
    /\ pc = "hist_entry"
    /\ \E t \in ClockTicks :
          /\ t >= clock
          /\ BackfillDays(t) <= MaxBackfillDays
          /\ clock' = t
          /\ historical_end' = CutoffEnd(t)
    /\ current_day' = UtcDt(0)
    /\ ranBackfill' = TRUE
    /\ phase' = "backfill"
    /\ pc' = "hist_loop"
    /\ UNCHANGED <<sentinel, inv, startSentinel, histReturned, dailyRan, completions,
                   exitStatus, period_start, period_end, excVars, callLog, idx,
                   fetchVars, dbVars>>

\* The loop test asking for the whole day to lie before historical_end.
HistContinueWholeDay ==
    Instant(PlusDays(current_day, 1)) <= Instant(AsUtc(historical_end))

\* while current_day < historical_end.astimezone(timezone.utc)
HistContinue == Instant(current_day) < Instant(AsUtc(historical_end))

\* The loop test: another day's five calls, or historical_load_daywise returns.
HistLoop ==
    /\ pc = "hist_loop"
    /\ IF HistContinue
       THEN /\ idx' = 1
            /\ pc' = "call_enter"
            /\ UNCHANGED <<histReturned, completions>>
       ELSE /\ histReturned' = TRUE
            /\ completions' = completions + 1
            /\ pc' = "write_sentinel"
            /\ UNCHANGED idx
    /\ UNCHANGED <<sentinel, inv, clock, phase, startSentinel, ranBackfill, dailyRan,
                   exitStatus, winVars, excVars, callLog, fetchVars, dbVars>>

\* The daily load placed on the skip path only: after the backfill the run ends.
WriteSentinelThenExit ==
    /\ pc = "write_sentinel"
    /\ sentinel' = TRUE
    /\ exitStatus' = "completed"
    /\ pc' = "done"
    /\ UNCHANGED <<inv, clock, phase, startSentinel, ranBackfill, histReturned,
                   dailyRan, completions, winVars, excVars, callLog, idx, fetchVars,
                   dbVars>>

\* with open(last_run_file, "w") as f: f.write(...), then on to the daily load.
WriteSentinel ==
    /\ pc = "write_sentinel"
    /\ sentinel' = TRUE
    /\ pc' = "daily_entry"
    /\ UNCHANGED <<inv, clock, phase, startSentinel, ranBackfill, histReturned,
                   dailyRan, completions, exitStatus, winVars, excVars, callLog, idx,
                   fetchVars, dbVars>>

\* daily_load, up to its loop: now_utc, period_end, period_start.
DailyEntry ==
    /\ pc = "daily_entry"
    /\ \E t \in ClockTicks :
          /\ t >= clock
          /\ clock' = t
          /\ period_end' = CutoffEnd(t)
          /\ period_start' = PlusDays(CutoffEnd(t), -1)
    /\ dailyRan' = TRUE
    /\ phase' = "daily"
    /\ idx' = 1
    /\ pc' = "call_enter"
    /\ UNCHANGED <<sentinel, inv, startSentinel, ranBackfill, histReturned,
                   completions, exitStatus, historical_end, current_day, excVars,
                   callLog, fetchVars, dbVars>>

(* ------------------------------ a fetch call --------------------------- *)

\* The start_dt and end_dt the caller passes.
StartDt == IF phase = "backfill" THEN current_day ELSE period_start
EndDt == IF phase = "backfill" THEN PlusDays(current_day, 1) ELSE period_end

IsBalancing == idx <= Len(ControlAreas)

\* The call begins: the period strings are computed; they go into every query
\* the call sends.
CallEnter ==
    /\ pc = "call_enter"
    /\ callLog' = Append(callLog,
          [phase       |-> phase,
           slot        |-> idx,
           fn          |-> IF IsBalancing THEN "balancing" ELSE "dayahead",
           area        |-> IF IsBalancing THEN ControlAreas[idx] ELSE "BZN|DE-LU",
           start       |-> StartDt,
           end         |-> EndDt,
           periodStart |-> IF IsBalancing THEN BalancingPeriod(StartDt)
                                          ELSE DayAheadPeriod(StartDt),
           periodEnd   |-> IF IsBalancing THEN BalancingPeriod(EndDt)
                                          ELSE DayAheadPeriod(EndDt)])
    /\ ptIdx' = 1
    /\ data' = <<>>
    /\ failedPt' = {}
    /\ callState' = "running"
    /\ dbOps' = <<>>
    /\ inserted' = <<>>
    /\ pc' = IF IsBalancing THEN "bal_fetch" ELSE "da_fetch"
    /\ UNCHANGED <<invVars, winVars, alerts, raisedPhase, logAtRaise, raisedAt, idx,
                   openConns>>

\* The handler without its raise: the failure is logged and alerted, and the call
\* returns to its caller.
FetchExceptSwallowed(site) ==
    /\ alerts' = Append(alerts,
          [by      |-> "fetch",
           subject |-> IF idx <= Len(ControlAreas) THEN "ENTSOE ETL Failed"
                                                   ELSE "ENTSOE Day-ahead ETL Failed"])
    /\ callState' = "raised"
    /\ raisedAt' = site
    /\ raisedPhase' = phase
    /\ logAtRaise' = Len(callLog)
    /\ ptIdx' = 0
    /\ data' = <<>>
    /\ failedPt' = {}
    /\ pc' = "call_return"

\* except Exception as e: logging.error, send_email_alert, raise.  The exception
\* leaves the call, and the call's data with it.
FetchExcept(site) ==
    /\ alerts' = Append(alerts,
          [by      |-> "fetch",
           subject |-> IF IsBalancing THEN "ENTSOE ETL Failed"
                                      ELSE "ENTSOE Day-ahead ETL Failed"])
    /\ callState' = "raised"
    /\ raisedAt' = site
    /\ raisedPhase' = phase
    /\ logAtRaise' = Len(callLog)
    /\ ptIdx' = 0
    /\ data' = <<>>
    /\ failedPt' = {}
    /\ pc' = "propagate"

\* One pass of the process-type loop: the query, the parse, the inner except.
BalFetch ==
    /\ pc = "bal_fetch"
    /\ \E o \in BalancingOutcomes :
          /\ data' = CASE o = "ok_all" ->
                            Append(data, [pt |-> ProcessTypes[ptIdx], part |-> "all"])
                       [] o = "fail_partial" ->
                            Append(data, [pt |-> ProcessTypes[ptIdx], part |-> "partial"])
                       [] OTHER -> data
          /\ failedPt' = IF o \in {"fail_early", "fail_partial"}
                         THEN failedPt \cup {ProcessTypes[ptIdx]}
                         ELSE failedPt
    /\ ptIdx' = ptIdx + 1
    /\ pc' = IF ptIdx = Len(ProcessTypes) THEN "check_data" ELSE "bal_fetch"
    /\ UNCHANGED <<invVars, winVars, excVars, callLog, idx, dbVars>>

\* The day-ahead query and parse: no inner except, a failure leaves the call.
DaFetch ==
    /\ pc = "da_fetch"
    /\ \E o \in DayAheadOutcomes :
          IF o = "fail"
          THEN FetchExcept("fetch")
          ELSE /\ data' = IF o = "ok_all"
                          THEN <<[pt |-> "A44", part |-> "all"]>>
                          ELSE <<>>
               /\ pc' = "check_data"
               /\ UNCHANGED <<excVars, ptIdx, failedPt>>
    /\ UNCHANGED <<invVars, winVars, callLog, idx, dbVars>>

\* The emptiness test that no list passes (if data is None).
NoDataNever == FALSE

\* if not data
NoData == data = <<>>

\* if not data: logging.warning, return.
CheckData ==
    /\ pc = "check_data"
    /\ IF NoData
       THEN /\ callState' = "returned"
            /\ pc' = "call_return"
       ELSE /\ pc' = "db_connect"
            /\ UNCHANGED callState
    /\ UNCHANGED <<invVars, winVars, alerts, raisedPhase, logAtRaise, raisedAt,
                   callLog, idx, fetchVars, dbVars>>

\* conn = psycopg2.connect(...); cursor = conn.cursor()
DbConnect ==
    /\ pc = "db_connect"
    /\ \/ /\ openConns' = openConns + 1
          /\ dbOps' = Append(dbOps, "connect")
          /\ pc' = "db_create"
          /\ UNCHANGED <<excVars, fetchVars>>
       \/ /\ FetchExcept("connect")
          /\ UNCHANGED <<openConns, dbOps>>
    /\ UNCHANGED <<invVars, winVars, callLog, idx, inserted>>

\* CREATE TABLE IF NOT EXISTS ...; conn.commit()
DbCreate ==
    /\ pc = "db_create"
    /\ \/ /\ dbOps' = Append(dbOps, "create_table")
          /\ pc' = IF IsBalancing THEN "db_alter" ELSE "db_insert"
          /\ UNCHANGED <<excVars, fetchVars>>
       \/ /\ FetchExcept("create_table")
          /\ UNCHANGED dbOps
    /\ UNCHANGED <<invVars, winVars, callLog, idx, openConns, inserted>>

\* The required_columns loop of fetch_and_store_data; conn.commit()
DbAlter ==
    /\ pc = "db_alter"
    /\ \/ /\ dbOps' = Append(dbOps, "add_columns")
          /\ pc' = "db_insert"
          /\ UNCHANGED <<excVars, fetchVars>>
       \/ /\ FetchExcept("add_columns")
          /\ UNCHANGED dbOps
    /\ UNCHANGED <<invVars, winVars, callLog, idx, openConns, inserted>>

\* execute_values(cursor, "INSERT INTO ...", values); conn.commit()
DbInsert ==
    /\ pc = "db_insert"
    /\ \/ /\ dbOps' = Append(dbOps, "insert")
          /\ inserted' = data
          /\ pc' = "db_close"
          /\ UNCHANGED <<excVars, fetchVars>>
       \/ /\ FetchExcept("insert")
          /\ UNCHANGED <<dbOps, inserted>>
    /\ UNCHANGED <<invVars, winVars, callLog, idx, openConns>>

\* cursor.close(); conn.close(); logging.info; the call returns.
DbClose ==
    /\ pc = "db_close"
    /\ openConns' = openConns - 1
    /\ dbOps' = Append(dbOps, "close")
    /\ callState' = "returned"
    /\ pc' = "call_return"
    /\ UNCHANGED <<invVars, winVars, alerts, raisedPhase, logAtRaise, raisedAt,
                   callLog, idx, fetchVars, inserted>>

(* ------------------------------ back in the caller --------------------- *)

\* The caller goes on to the next control area, or to the day-ahead call.
NextCall ==
    /\ pc = "call_return"
    /\ idx < CallsPerWindow
    /\ idx' = idx + 1
    /\ pc' = "call_enter"
    /\ UNCHANGED <<invVars, winVars, excVars, callLog, fetchVars, dbVars>>

\* current_day = next_day
HistAdvance ==
    /\ pc = "call_return"
    /\ idx = CallsPerWindow
    /\ phase = "backfill"
    /\ current_day' = PlusDays(current_day, 1)
    /\ pc' = "hist_loop"
    /\ UNCHANGED <<invVars, historical_end, period_start, period_end, excVars,
                   callLog, idx, fetchVars, dbVars>>

\* daily_load returns; logging.info("ETL completed successfully.")
DailyDone ==
    /\ pc = "call_return"
    /\ idx = CallsPerWindow
    /\ phase = "daily"
    /\ exitStatus' = "completed"
    /\ pc' = "done"
    /\ UNCHANGED <<sentinel, inv, clock, phase, startSentinel, ranBackfill,
                   histReturned, dailyRan, completions, winVars, excVars, callLog,
                   idx, fetchVars, dbVars>>

\* The entry point's except without its send_email_alert.
TopExceptSilent ==
    /\ pc = "propagate"
    /\ exitStatus' = "caught"
    /\ pc' = "done"
    /\ UNCHANGED <<sentinel, inv, clock, phase, startSentinel, ranBackfill,
                   histReturned, dailyRan, completions, winVars, excVars, callLog,
                   idx, fetchVars, dbVars>>

\* The entry point's except: logging.error, send_email_alert; the process ends.
TopExcept ==
    /\ pc = "propagate"
    /\ alerts' = Append(alerts, [by |-> "top", subject |-> "ENTSOE ETL Failed"])
    /\ exitStatus' = "caught"
    /\ pc' = "done"
    /\ UNCHANGED <<sentinel, inv, clock, phase, startSentinel, ranBackfill,
                   histReturned, dailyRan, completions, winVars, raisedPhase,
                   logAtRaise, callState, raisedAt, callLog, idx, fetchVars, dbVars>>

Next ==
    \/ StartInvocation
    \/ HistEntry
    \/ HistLoop
    \/ WriteSentinel
    \/ DailyEntry
    \/ CallEnter
    \/ BalFetch
    \/ DaFetch
    \/ CheckData
    \/ DbConnect
    \/ DbCreate
    \/ DbAlter
    \/ DbInsert
    \/ DbClose
    \/ NextCall
    \/ HistAdvance
    \/ DailyDone
    \/ TopExcept

Spec == Init /\ [][Next]_vars

(* ------------------------------ properties ----------------------------- *)

DbPcs == {"db_connect", "db_create", "db_alter", "db_insert", "db_close"}

IsPrefix(a, b) ==
    /\ Len(a) <= Len(b)
    /\ \A i \in 1..Len(a) : a[i] = b[i]

\* The fetch calls the backfill made, each as <<start instant, end instant, slot>>.
FromBackfill(e) == e.phase = "backfill"
BackfillCalls ==
    LET b == SelectSeq(callLog, FromBackfill)
    IN  [i \in 1..Len(b) |-> <<Instant(b[i].start), Instant(b[i].end), b[i].slot>>]

\* The calls of a backfill of n whole days from 2024-01-01T00:00Z: day by day,
\* the four control areas and then the day-ahead call.
DaywiseCalls(n) ==
    [i \in 1..(n * CallsPerWindow) |->
        << ((i - 1) \div CallsPerWindow) * MinPerDay,
           ((i - 1) \div CallsPerWindow + 1) * MinPerDay,
           ((i - 1) % CallsPerWindow) + 1 >>]

\* The instant at which the Europe/Berlin wall clock shows 22:00 on local day d.
LocalCutoff(d) ==
    LET w == d * MinPerDay + CutoffHour * MinPerHour
    IN  CHOOSE c \in {w - CetOffset, w - CestOffset} : c + BerlinOffset(c) = w

\* The most recent 22:00 Europe/Berlin at or before the instant t.
MostRecentCutoff(t) ==
    LET d == (t + BerlinOffset(t)) \div MinPerDay
    IN  IF t >= LocalCutoff(d) THEN LocalCutoff(d) ELSE LocalCutoff(d - 1)

LastCall == callLog[Len(callLog)]

FetchAlert ==
    [by      |-> "fetch",
     subject |-> IF LastCall.fn = "balancing" THEN "ENTSOE ETL Failed"
                                              ELSE "ENTSOE Day-ahead ETL Failed"]
TopAlert == [by |-> "top", subject |-> "ENTSOE ETL Failed"]

\* C1, as stated: every invocation that has ended has executed daily_load.
C1_DailyLoadAlways == pc = "done" => dailyRan

\* C1, as amended: an invocation that has ended has executed daily_load exactly
\* when no fetch call of the backfill raised; and daily_load is entered only
\* after the backfill check: with the sentinel found present, or after the
\* backfill returned and the sentinel was written.
C1_DailyLoadUnlessBackfillRaised ==
    /\ pc = "done" => (dailyRan <=> raisedPhase # "backfill")
    /\ dailyRan => (startSentinel \/ (histReturned /\ sentinel))

\* An invocation that ran the backfill to its end and then the daily load.
C1_Witness ==
    /\ pc = "done"
    /\ ranBackfill
    /\ histReturned
    /\ dailyRan
    /\ exitStatus = "completed"

\* C2: the backfill is entered only in an invocation that found the sentinel
\* absent, and every such invocation that ends has entered it; the sentinel is
\* written only after historical_load_daywise returned without raising; the
\* sentinel, once there, stays; the backfill runs to completion at most once.
C2_BackfillGatedBySentinel ==
    /\ ranBackfill => ~startSentinel
    /\ (pc = "done" /\ ~startSentinel) => ranBackfill
    /\ (sentinel /\ ~startSentinel) => (histReturned /\ raisedPhase # "backfill")
    /\ startSentinel => sentinel
    /\ completions <= 1

\* A second invocation that skips the backfill the first one completed.
C2_Witness ==
    /\ inv = 2
    /\ pc = "done"
    /\ completions = 1
    /\ startSentinel
    /\ ~ranBackfill
    /\ dailyRan

C4_TwoDays ==
    (ranBackfill /\ Instant(historical_end) = At(2, 21, 0)) =>
        /\ IsPrefix(BackfillCalls, DaywiseCalls(2))
        /\ histReturned => BackfillCalls = DaywiseCalls(2)

\* C4, as amended: with historical_end = 2024-01-03T21:00Z the backfill calls are,
\* in order, the five calls of 2024-01-01, of 2024-01-02 and of 2024-01-03 (a
\* failure cuts the sequence short), and a backfill that returns has made exactly
\* these fifteen calls.
C4_ThreeDays ==
    (ranBackfill /\ Instant(historical_end) = At(2, 21, 0)) =>
        /\ IsPrefix(BackfillCalls, DaywiseCalls(3))
        /\ histReturned => BackfillCalls = DaywiseCalls(3)

\* A backfill up to 2024-01-03T21:00Z that has returned.
C4_Witness ==
    /\ histReturned
    /\ Instant(historical_end) = At(2, 21, 0)
    /\ Len(BackfillCalls) = 3 * CallsPerWindow

\* C5: in a balancing call that inserted a batch, the batch holds no record of a
\* process type whose query failed and holds the records of the others whole;
\* every process type was queried; and a call that returned after such a
\* failure sent no alert.
C5_FailedTypeAbsent ==
    /\ (inserted # <<>> /\ LastCall.fn = "balancing") =>
          \A i \in 1..Len(inserted) :
              /\ inserted[i].pt \notin failedPt
              /\ inserted[i].part = "all"
    /\ (pc = "check_data" /\ LastCall.fn = "balancing") =>
          ptIdx = Len(ProcessTypes) + 1
    /\ (callState = "returned" /\ failedPt # {}) => alerts = <<>>

\* C6, as stated: an invocation in which a failure escaped a fetch call ends
\* with a single notification sent and the exception caught.
C6_SingleNotification ==
    (pc = "done" /\ raisedPhase # "none") =>
        /\ Len(alerts) = 1
        /\ exitStatus = "caught"

\* C6, as amended: no notification is sent unless a failure escapes a fetch call;
\* the fetch call that a failure escapes sends one notification and re-raises;
\* the entry point's handler then sends a second one and swallows the exception,
\* so the invocation ends with exactly two notifications for that failure.
C6_TwoNotifications ==
    /\ raisedPhase = "none" => alerts = <<>>
    /\ raisedPhase # "none" => (callState = "raised" /\ pc \in {"propagate", "done"})
    /\ pc = "propagate" => alerts = <<FetchAlert>>
    /\ (pc = "done" /\ raisedPhase # "none") =>
          (alerts = <<FetchAlert, TopAlert>> /\ exitStatus = "caught")

\* An invocation ended by a failed bulk insert of the daily load.
C6_Witness ==
    /\ pc = "done"
    /\ raisedPhase = "daily"
    /\ raisedAt = "insert"
    /\ Len(alerts) = 2

\* C7: a fetch call whose data is empty never reaches the database steps; once
\* it has returned, it has opened no connection, created or altered no table
\* and inserted nothing, no exception left it and no alert was sent.
C7_EmptyResultReturns ==
    /\ pc \in DbPcs => data # <<>>
    /\ (callState = "returned" /\ data = <<>>) =>
          /\ dbOps = <<>>
          /\ inserted = <<>>
          /\ openConns = 0
          /\ alerts = <<>>
          /\ raisedPhase = "none"

\* A balancing call that returned with no record.
C7_Witness ==
    /\ pc = "call_return"
    /\ callState = "returned"
    /\ LastCall.fn = "balancing"
    /\ data = <<>>

\* C8: the window daily_load computes ends at the most recent 22:00 Europe/Berlin
\* at or before the clock reading, and is 24 hours long.
C8_WindowEndsAtLocalCutoff ==
    dailyRan =>
        /\ Instant(period_end) = MostRecentCutoff(clock)
        /\ Instant(period_end) - Instant(period_start) = MinPerDay

\* C9: the periodStart and periodEnd of every fetch call are the Europe/Berlin
\* local times of the instants start_dt and end_dt it was passed, so two calls
\* passed the same window send the same values.
C9_PeriodIsBerlinLocal ==
    /\ \A i \in 1..Len(callLog) :
          /\ callLog[i].periodStart = Strftime(AsBerlin(callLog[i].start))
          /\ callLog[i].periodEnd = Strftime(AsBerlin(callLog[i].end))
    /\ \A i, j \in 1..Len(callLog) :
          (callLog[i].start = callLog[j].start /\ callLog[i].end = callLog[j].end) =>
              /\ callLog[i].periodStart = callLog[j].periodStart
              /\ callLog[i].periodEnd = callLog[j].periodEnd

\* C10: no connection is open once the fetch call that opened it has returned
\* or raised, none is open when a fetch call begins, and never more than one
\* is open.
C10_ConnectionClosed ==
    /\ callState \in {"returned", "raised"} => openConns = 0
    /\ pc = "call_enter" => openConns = 0
    /\ openConns <= 1

=============================================================================
